---- MODULE Spec2Model ----
(***************************************************************************)
(* Model of the assessment recommendation backend: the vector store        *)
(* adapter (vector_store.py), the fallback embedding (embeddings.py), the  *)
(* retrieval / re-rank / balance pipeline (rag_pipeline.py) and the        *)
(* recommendation endpoint with its re-index routine (server.py).          *)
(***************************************************************************)
EXTENDS Integers, Sequences, FiniteSets, TLC

VARIABLES
    \* ---- _balance_recommendations applied to drawn inputs
    recs,            \* the ranked list handed to the balancer
    req_types,       \* analysis['test_types']
    balanced,        \* the balancer's run: [idx, picks], idx = input positions in output order
    bpc,             \* "off" | "input" | "done"
    \* ---- _simple_embedding applied to drawn digests
    text_hash,       \* hashlib.sha256(text.encode()).digest(): 32 bytes
    vector,          \* the returned vector, each component in hundredths
    epc,             \* "off" | "input" | "done"
    \* ---- the vector store (VectorStore over the Chroma collection)
    collection,      \* the collection's entries [id, metadata], in insertion order
    stale,           \* self.collection names a deleted collection (clear() half done)
    origin,          \* history: the assessment each stored id was created from
    s_out,           \* the last search call: [k, order, raised, value, asked]
    spc,             \* "off" | "ready"
    \* ---- one recommendation call: the endpoint, or a direct caller of recommend
    pc,              \* "off" | "idle" | "scrape" | "index" | "analyze" | "embed" |
                     \* "search" | "rerank" | "balance" | "return" | "done"
    caller,          \* "none" | "endpoint" | "direct"
    n_results,       \* recommend's n_results
    assessments,     \* scrape_and_index: the scraped records
    query_analysis,  \* recommend: the analysis dict
    candidates,      \* recommend: the search result
    recommendations, \* recommend: the re-ranker's result
    result,          \* what recommend returned: [raised, value]
    response,        \* what the endpoint answered: [status, detail, body]
    trace,           \* history of the call: what failed, what was called
    \* ---- calculate_recall_at_k applied to drawn inputs
    recall_run,      \* [pc, predicted, relevant, k, value]
    \* ---- _rerank_and_filter applied to drawn candidates and responses
    rerank_run,      \* [pc, cands, text, n, value]
    \* ---- _extract_skills and _extract_focus_areas applied to drawn model outputs
    extract_run,     \* [pc, text, skills, focus]
    \* ---- re-index runs interleaved with recommendation requests
    runs,            \* run -> [pc, cat]: the scrape_and_index coroutines
    req,             \* position of the request handler
    stored_dims,     \* length of the vector stored with each entry of collection
    last,            \* [failed, before, after, new]: the re-index run that ended last
    obs,             \* what the search of a request met, while it is the latest step
    service_dim      \* length of the vectors the embedding service returns

bvars == <<recs, req_types, balanced, bpc>>
evars == <<text_hash, vector, epc>>
svars == <<collection, stale, origin, s_out, spc>>
rvars == <<pc, caller, n_results, assessments, query_analysis, candidates,
           recommendations, result, response, trace>>
vars == <<recs, req_types, balanced, bpc, text_hash, vector, epc,
          collection, stale, origin, s_out, spc,
          pc, caller, n_results, assessments, query_analysis, candidates,
          recommendations, result, response, trace, recall_run, rerank_run,
          extract_run, runs, req, stored_dims, last, obs, service_dim>>

\* The variables of the runs added below the pipeline.
ivars == <<runs, req, stored_dims, last, obs, service_dim>>

xvars == <<recall_run, rerank_run, extract_run, ivars>>

\* ------------------------------------------------------------------ bounds
MaxRecs == 3
MaxDocs == 3
MaxK == 4
MaxN == 2
MaxResp == 3
MaxText == 4

\* ------------------------------------------------------------------ helpers
Range(s) == {s[i] : i \in 1..Len(s)}

Take(s, n) == IF n <= 0 THEN <<>> ELSE SubSeq(s, 1, IF n < Len(s) THEN n ELSE Len(s))

Min(a, b) == IF a < b THEN a ELSE b

Max(a, b) == IF a < b THEN b ELSE a

SeqsUpTo(S, n) == UNION {[1..k -> S] : k \in 0..n}

\* ------------------------------------------------------------------ data
\* The category labels of the catalogue.
K == "Knowledge & Skills"
P == "Personality & Behavior"
C == "Cognitive"
G == "General Assessment"

\* dict.get on a missing key: None for 'url', the default [] for 'test_type'.
\* An absent key is written as a marker value no stored field can take.
None == "None"
NoKey == <<"NoKey">>

GetUrl(r) == r.url

GetTestType(r) == IF r.test_type = NoKey THEN <<>> ELSE r.test_type

\* ------------------------------------------------- _balance_recommendations
\* by_type[t]: the input positions of the items carrying t, in rank order.
ByType(rs, t) ==
    SelectSeq([i \in 1..Len(rs) |-> i], LAMBDA i : t \in Range(GetTestType(rs[i])))

\* The inner loop scanning by_type[t] to its end: the last unseen item (0: none).
RECURSIVE LastUnseen(_, _, _, _)
LastUnseen(rs, cand, seen, j) ==
    IF j > Len(cand) THEN 0
    ELSE LET later == LastUnseen(rs, cand, seen, j + 1)
         IN  IF later # 0 THEN later
             ELSE IF GetUrl(rs[cand[j]]) \notin seen THEN cand[j] ELSE 0

\* The inner loop over by_type[t]: the first item whose url is not yet seen (0: none).
RECURSIVE FirstUnseen(_, _, _, _)
FirstUnseen(rs, cand, seen, j) ==
    IF j > Len(cand) THEN 0
    ELSE IF GetUrl(rs[cand[j]]) \notin seen THEN cand[j]
    ELSE FirstUnseen(rs, cand, seen, j + 1)

\* The inner loop without its break: every unseen item of by_type[t] is appended.
RECURSIVE AppendAllUnseen(_, _, _, _)
AppendAllUnseen(rs, cand, j, st) ==
    IF j > Len(cand) THEN st
    ELSE IF GetUrl(rs[cand[j]]) \notin st.seen
         THEN AppendAllUnseen(rs, cand, j + 1,
                              [st EXCEPT !.idx = Append(@, cand[j]),
                                         !.seen = @ \cup {GetUrl(rs[cand[j]])}])
         ELSE AppendAllUnseen(rs, cand, j + 1, st)

RECURSIVE HeadLoopNoBreak(_, _, _, _)
HeadLoopNoBreak(rs, types, j, st) ==
    IF j > Len(types) THEN st
    ELSE LET bt == ByType(rs, types[j])
             p  == IF bt = <<>> THEN 0 ELSE FirstUnseen(rs, bt, st.seen, 1)
         IN  HeadLoopNoBreak(rs, types, j + 1,
                 [AppendAllUnseen(rs, bt, 1, st) EXCEPT !.picks = Append(@, p)])

\* The loop over req_types: one pick per requested category.
\* st = [idx: positions appended so far, seen: urls, picks: pick of each category (0: none)]
RECURSIVE HeadLoop(_, _, _, _)
HeadLoop(rs, types, j, st) ==
    IF j > Len(types) THEN st
    ELSE LET bt == ByType(rs, types[j])
             p  == IF bt = <<>> THEN 0 ELSE FirstUnseen(rs, bt, st.seen, 1)
         IN  IF p = 0
             THEN HeadLoop(rs, types, j + 1,
                           [st EXCEPT !.picks = Append(@, 0)])
             ELSE HeadLoop(rs, types, j + 1,
                           [idx   |-> Append(st.idx, p),
                            seen  |-> st.seen \cup {GetUrl(rs[p])},
                            picks |-> Append(st.picks, p)])

\* The loop over recs: every item whose url is not yet seen, in rank order.
RECURSIVE TailLoop(_, _, _)
TailLoop(rs, i, st) ==
    IF i > Len(rs) THEN st
    ELSE IF GetUrl(rs[i]) \notin st.seen
         THEN TailLoop(rs, i + 1,
                       [st EXCEPT !.idx = Append(@, i),
                                  !.seen = @ \cup {GetUrl(rs[i])}])
         ELSE TailLoop(rs, i + 1, st)

BalanceRun(rs, types) ==
    IF Len(types) <= 1
    THEN [idx |-> [i \in 1..Len(rs) |-> i], seen |-> {}, picks |-> <<>>]
    ELSE TailLoop(rs, 1, HeadLoop(rs, types, 1, [idx |-> <<>>, seen |-> {}, picks |-> <<>>]))

ItemsAt(rs, idx) == [k \in 1..Len(idx) |-> rs[idx[k]]]

balance_recommendations(rs, analysis) ==
    ItemsAt(rs, BalanceRun(rs, analysis.test_types).idx)

\* ------------------------------------------------------------ vector store
\* Python values whose type the code changes carry it: an int n is [type: "int", v: <<n>>],
\* a str is [type: "str", v: its characters].
PyInt(n) == [type |-> "int", v |-> <<n>>]

DigitChars == <<"0", "1", "2", "3", "4", "5", "6", "7", "8", "9">>

RECURSIVE Decimal(_)
Decimal(n) ==
    IF n < 10 THEN <<DigitChars[n + 1]>>
    ELSE Append(Decimal(n \div 10), DigitChars[(n % 10) + 1])

\* str(x) of an int
PyStr(x) == [type |-> "str", v |-> Decimal(x.v[1])]

DigitValue(c) == (CHOOSE d \in 1..10 : DigitChars[d] = c) - 1

RECURSIVE DecimalValue(_)
DecimalValue(cs) ==
    IF cs = <<>> THEN 0
    ELSE 10 * DecimalValue(SubSeq(cs, 1, Len(cs) - 1)) + DigitValue(cs[Len(cs)])

\* int(x) of an int or of a str of digits
ToInt(x) == IF x.type = "int" THEN x ELSE PyInt(DecimalValue(x.v))

\* str(list of str): "['a', 'b']", one token per bracket, quote, label and separator.
RECURSIVE ReprItems(_, _)
ReprItems(l, i) ==
    IF i > Len(l) THEN <<>>
    ELSE (IF i > 1 THEN <<", ">> ELSE <<>>) \o <<"'", l[i], "'">> \o ReprItems(l, i + 1)

ReprList(l) == <<"[">> \o ReprItems(l, 1) \o <<"]">>

\* eval of such a string: the list it denotes.
RECURSIVE EvalItems(_, _)
EvalItems(toks, i) ==
    IF i > Len(toks) \/ toks[i] = "]" THEN <<>>
    ELSE IF toks[i] = ", " THEN EvalItems(toks, i + 1)
    ELSE <<toks[i + 1]>> \o EvalItems(toks, i + 3)

EvalList(toks) == EvalItems(toks, 2)

create_metadata(a) ==
    [name             |-> a.name,
     url              |-> a.url,
     description      |-> a.description,
     duration         |-> PyStr(a.duration),
     test_type        |-> ReprList(a.test_type),
     adaptive_support |-> a.adaptive_support,
     remote_support   |-> a.remote_support]

Ids(col) == {col[i].id : i \in 1..Len(col)}

\* collection.count(): raises on a deleted collection.
count(col, isStale) ==
    IF isStale THEN [raised |-> TRUE, value |-> 0] ELSE [raised |-> FALSE, value |-> Len(col)]

\* add_assessments: ids assessment_0.. in order; the backend either raises (nothing is
\* written) or inserts the entries whose id is not yet present.
add_assessments(col, isStale, docs, embeddings, backendRaises) ==
    IF docs = <<>> \/ embeddings = <<>>
    THEN [raised |-> FALSE, collection |-> col]
    ELSE IF isStale \/ backendRaises \/ Len(embeddings) # Len(docs)
    THEN [raised |-> TRUE, collection |-> col]
    ELSE LET new == [i \in 1..Len(docs) |->
                        [id |-> i - 1, metadata |-> create_metadata(docs[i])]]
         IN  [raised |-> FALSE,
              collection |-> col \o SelectSeq(new, LAMBDA e : e.id \notin Ids(col))]

\* clear: delete_collection, then create_collection; an error of either is logged only.
ClearOutcomes == {"ok", "delete_raises", "create_raises"}

clear(col, isStale, outcome) ==
    IF outcome = "delete_raises" \/ isStale
    THEN [collection |-> col, stale |-> isStale]
    ELSE IF outcome = "create_raises"
    THEN [collection |-> <<>>, stale |-> TRUE]
    ELSE [collection |-> <<>>, stale |-> FALSE]

\* collection.query: the n nearest entries in the backend's distance order; it raises
\* when asked for fewer than one neighbour, or on any error of its own.
query(col, order, n, backendRaises) ==
    IF n <= 0 \/ backendRaises
    THEN [raised |-> TRUE, metadatas |-> <<>>, distances |-> <<>>]
    ELSE [raised |-> FALSE,
          metadatas |-> [i \in 1..Min(n, Len(col)) |-> col[order[i]].metadata],
          distances |-> [i \in 1..Min(n, Len(col)) |-> i - 1]]

FormatResult(metadata, distance) ==
    [name             |-> metadata.name,
     url              |-> metadata.url,
     description      |-> metadata.description,
     duration         |-> metadata.duration,
     test_type        |-> EvalList(metadata.test_type),
     adaptive_support |-> metadata.adaptive_support,
     remote_support   |-> metadata.remote_support,
     distance         |-> distance]

\* The neighbour count search hands to the backend.
NeighboursAskedUnclamped(k, cnt) == k

NeighboursAsked(k, cnt) == Min(k, cnt)

\* The body of search's try block.
SearchTry(col, isStale, k, order, backendRaises) ==
    LET c == count(col, isStale)
        n == NeighboursAsked(k, c.value)
        r == query(col, order, n, backendRaises)
    IN  IF c.raised THEN [raised |-> TRUE, value |-> <<>>, asked |-> <<>>]
        ELSE IF r.raised THEN [raised |-> TRUE, value |-> <<>>, asked |-> <<n>>]
        ELSE [raised |-> FALSE,
              value  |-> [i \in 1..Len(r.metadatas) |->
                             FormatResult(r.metadatas[i], r.distances[i])],
              asked  |-> <<n>>]

\* search without its except clause.
SearchPropagates(col, isStale, k, order, backendRaises) ==
    SearchTry(col, isStale, k, order, backendRaises)

search(col, isStale, k, order, backendRaises) ==
    LET t == SearchTry(col, isStale, k, order, backendRaises)
    IN  IF t.raised THEN [t EXCEPT !.raised = FALSE, !.value = <<>>] ELSE t

\* ----------------------------------------------------------- _analyze_query
\* The keyword groups found in the model output and the query, lower-cased.
KeywordGroups == {"technical", "personality", "cognitive"}

extract_test_types(found) ==
    LET types == (IF "technical" \in found THEN <<K>> ELSE <<>>)
                 \o (IF "personality" \in found THEN <<P>> ELSE <<>>)
                 \o (IF "cognitive" \in found THEN <<C>> ELSE <<>>)
    IN  IF types = <<>> THEN <<K>> ELSE types

\* outcome = [raises, found]: the generative call fails, or its text is parsed.
analyze_query(outcome) ==
    IF outcome.raises
    THEN [test_types |-> <<K, P>>, experience_level |-> "Mid"]
    ELSE [test_types |-> extract_test_types(outcome.found), experience_level |-> "Mid"]

\* ------------------------------------------------------ _rerank_and_filter
IsDigit(c) == \E d \in 1..10 : DigitChars[d] = c

\* re.findall(r'\d+', response): the maximal runs of digits, left to right.
RECURSIVE DigitRuns(_, _, _)
DigitRuns(text, i, cur) ==
    IF i > Len(text) THEN (IF cur = <<>> THEN <<>> ELSE <<cur>>)
    ELSE IF IsDigit(text[i]) THEN DigitRuns(text, i + 1, Append(cur, text[i]))
    ELSE (IF cur = <<>> THEN <<>> ELSE <<cur>>) \o DigitRuns(text, i + 1, <<>>)

parse_rankings(text) ==
    LET nums == DigitRuns(text, 1, <<>>)
    IN  [j \in 1..Len(nums) |-> DecimalValue(nums[j]) - 1]

\* for r in rankings: if 0 <= r < len(candidates): reranked.append(candidates[r])
RECURSIVE RankedLoop(_, _, _)
RankedLoop(cands, rankings, j) ==
    IF j > Len(rankings) THEN <<>>
    ELSE (IF 0 <= rankings[j] /\ rankings[j] < Len(cands)
          THEN <<cands[rankings[j] + 1]>> ELSE <<>>)
         \o RankedLoop(cands, rankings, j + 1)

\* The second loop with its length test left out: every unmentioned candidate is added.
RECURSIVE FillLoopUnbounded(_, _, _, _, _)
FillLoopUnbounded(cands, rankings, n, i, reranked) ==
    IF i >= Len(cands) THEN reranked
    ELSE IF i \notin Range(rankings)
         THEN FillLoopUnbounded(cands, rankings, n, i + 1, Append(reranked, cands[i + 1]))
         ELSE FillLoopUnbounded(cands, rankings, n, i + 1, reranked)

\* for i, c in enumerate(candidates): if i not in rankings and len(reranked) < n_results
RECURSIVE FillLoop(_, _, _, _, _)
FillLoop(cands, rankings, n, i, reranked) ==
    IF i >= Len(cands) THEN reranked
    ELSE IF i \notin Range(rankings) /\ Len(reranked) < n
         THEN FillLoop(cands, rankings, n, i + 1, Append(reranked, cands[i + 1]))
         ELSE FillLoop(cands, rankings, n, i + 1, reranked)

\* The except clause of _rerank_and_filter.
RerankExceptTruncates(cands, n) == Take(cands, n)

RerankExcept(cands, n) == cands

\* outcome = [raises, text]: the generative call or the parse raises, or text is ranked.
rerank_and_filter(cands, n, outcome) ==
    IF outcome.raises
    THEN [raised |-> FALSE, value |-> RerankExcept(cands, n)]
    ELSE LET rankings == parse_rankings(outcome.text)
         IN  [raised |-> FALSE,
              value  |-> FillLoop(cands, rankings, n, 0, RankedLoop(cands, rankings, 1))]

\* ---------------------------------------------------------------- recommend
\* vector_store.search(query_embedding, n_results=20)
SearchOverfetch == 20

\* return balanced[:n_results]
RecommendReturnsAll(bal, n) == bal

RecommendReturn(bal, n) == Take(bal, n)

\* except Exception: return []
RecommendExceptKeepsCandidates(cands) == [raised |-> FALSE, value |-> cands]

RecommendExcept(cands) == [raised |-> FALSE, value |-> <<>>]

\* ------------------------------------------------------ recommend_assessments
\* rag_pipeline.recommend(request.query, n_results=10)
EndpointN == 10

\* str(e) of HTTPException(status_code=404, detail="No assessments found")
NotFoundText == "404: No assessments found"

\* except Exception as e: raise HTTPException(status_code=500, detail=str(e))
EndpointExcept(text) == [status |-> 500, detail |-> text, body |-> <<>>]

FormatAssessment(rec) ==
    [name             |-> rec.name,
     url              |-> rec.url,
     description      |-> rec.description,
     duration         |-> ToInt(rec.duration),
     test_type        |-> rec.test_type,
     adaptive_support |-> rec.adaptive_support,
     remote_support   |-> rec.remote_support]

\* Lines 94-115: the answer for what recommend handed back.
EndpointResponse(res) ==
    IF res.raised THEN EndpointExcept("error")
    ELSE IF res.value = <<>> THEN EndpointExcept(NotFoundText)
    ELSE [status |-> 200, detail |-> "",
          body |-> [i \in 1..Len(res.value) |-> FormatAssessment(res.value[i])]]

\* --------------------------------------- _extract_skills, _extract_focus_areas
\* A text is a sequence of tokens: the words "Skills", "focus" and "a", and the
\* characters space, colon, comma and newline.  A str is a sequence of tokens too.
Newline == "\n"

\* str.lower()
Lower(text) ==
    [i \in 1..Len(text) |-> IF text[i] = "Skills" THEN "skills"
                            ELSE IF text[i] = "Focus" THEN "focus" ELSE text[i]]

\* str.split(sep): the pieces between the separators, empty pieces kept.
RECURSIVE SplitOn(_, _, _, _)
SplitOn(text, sep, i, cur) ==
    IF i > Len(text) THEN <<cur>>
    ELSE IF text[i] = sep THEN <<cur>> \o SplitOn(text, sep, i + 1, <<>>)
    ELSE SplitOn(text, sep, i + 1, Append(cur, text[i]))

IsSpace(c) == c \in {" ", Newline}

\* str.strip()
RECURSIVE Strip(_)
Strip(piece) ==
    IF piece = <<>> THEN <<>>
    ELSE IF IsSpace(piece[1]) THEN Strip(Tail(piece))
    ELSE IF IsSpace(piece[Len(piece)]) THEN Strip(SubSeq(piece, 1, Len(piece) - 1))
    ELSE piece

\* 'skill' in line, 'focus' in l: a word of the line contains the keyword.
HasKeyword(line, word) == \E i \in 1..Len(line) : line[i] = word

\* [s.strip() for s in parts[1].split(',')]
StrippedPieces(part) ==
    LET pieces == SplitOn(part, ",", 1, <<>>)
    IN  [j \in 1..Len(pieces) |-> Strip(pieces[j])]

\* The loop over the lines of the lowered text.
RECURSIVE ExtractLoop(_, _, _)
ExtractLoop(lines, word, i) ==
    IF i > Len(lines) THEN <<>>
    ELSE LET parts == SplitOn(lines[i], ":", 1, <<>>)
         IN  (IF HasKeyword(lines[i], word) /\ Len(parts) > 1
              THEN StrippedPieces(parts[2]) ELSE <<>>)
             \o ExtractLoop(lines, word, i + 1)

extract_skills(analysis) ==
    ExtractLoop(SplitOn(Lower(analysis), Newline, 1, <<>>), "skills", 1)

extract_focus_areas(analysis) ==
    ExtractLoop(SplitOn(Lower(analysis), Newline, 1, <<>>), "focus", 1)

\* ---------------------------------------------------- calculate_recall_at_k
\* sum(1 for url in predicted_k if url in relevant)
RelevantInK(predicted_k, relevant) ==
    Cardinality({i \in 1..Len(predicted_k) : predicted_k[i] \in Range(relevant)})

\* The returned float, kept as the fraction num/den.
calculate_recall_at_k(pred, rel, k) ==
    IF rel = <<>> THEN [num |-> 0, den |-> 1]
    ELSE [num |-> RelevantInK(Take(pred, k), rel), den |-> Len(rel)]

\* -------------------------------------------------------- _simple_embedding
HashLen == 32
EmbedDim == 384
Hundred == 100

\* float((b % 100) / 100.0), kept as the number of hundredths.
ByteToFloat(b) == b % Hundred

\* Padding with zeros in place of the cyclic repeat.
ExtendLoopZeroPad(v) ==
    IF Len(v) < EmbedDim THEN v \o [i \in 1..(EmbedDim - Len(v)) |-> 0] ELSE v

\* while len(vector) < 384: vector.extend(vector[:min(384 - len(vector), len(vector))])
RECURSIVE ExtendLoop(_)
ExtendLoop(v) ==
    IF Len(v) < EmbedDim
    THEN ExtendLoop(v \o SubSeq(v, 1, Min(EmbedDim - Len(v), Len(v))))
    ELSE v

simple_embedding(d) ==
    Take(ExtendLoop([i \in 1..Len(d) |-> ByteToFloat(d[i])]), EmbedDim)

\* ------------------------------------------------------------ scrape_and_index
\* The vector length of the embedding model when no output size is asked for.
GeminiDim == 3072

\* get_embedding: the service's vector, or the hash embedding when the call raises.
EmbeddingDim(primaryOk, sdim) == IF primaryOk THEN sdim ELSE EmbedDim

\* get_embeddings_batch: one get_embedding per document.
BatchDims(primary, sdim) == [i \in 1..Len(primary) |-> EmbeddingDim(primary[i], sdim)]

\* The backend refuses vectors of different lengths in one collection.
DimsClash(held, added) ==
    \E i \in 1..Len(added) :
        \/ \E j \in 1..Len(added) : added[i] # added[j]
        \/ \E j \in 1..Len(held) : added[i] # held[j]

\* scrape_and_index from the embedding batch on: nothing is awaited between
\* get_embeddings_batch, clear() and add_assessments(), and any exception is logged.
scrape_and_index(col, isStale, dims, cat, primary, clearOutcome, addRaises, sdim) ==
    LET embs    == BatchDims(primary, sdim)
        c       == clear(col, isStale, clearOutcome)
        kept    == IF c.collection = <<>> THEN <<>> ELSE dims
        a       == add_assessments(c.collection, c.stale, cat, embs,
                                   addRaises \/ DimsClash(kept, embs))
        fresh   == SelectSeq([i \in 1..Len(cat) |-> i],
                             LAMBDA i : (i - 1) \notin Ids(c.collection))
    IN  [failed     |-> a.raised,
         collection |-> a.collection,
         stale      |-> c.stale,
         dims       |-> IF a.raised THEN kept
                        ELSE kept \o [k \in 1..Len(fresh) |-> embs[fresh[k]]]]

\* recommend on the index as it stands: the query vector of get_embedding and the
\* entries its search is run against.
SearchMeets(col, isStale, dims, ended, queryPrimary, sdim) ==
    [called |-> TRUE, seen |-> col, prev |-> ended.before, new |-> ended.new,
     dims |-> dims, qdim |-> EmbeddingDim(queryPrimary, sdim)]

\* ---------------------------------------------------------------- catalogue
\* Assessments as scrape_catalog yields them, after the scraper's fallback records.
DocNames == <<"Java Developer Assessment", "Leadership & Collaboration Assessment",
              "Sales Representative Assessment", "Data Analyst Assessment",
              "Cognitive Ability Test">>
DocUrls == <<"view/java-programming/", "view/leadership-assessment/",
             "view/sales-assessment/", "view/data-analyst/", "view/cognitive-test/">>
DocDurations == <<60, 40, 35, 90, 5>>
DocTypes == <<<<K>>, <<P>>, <<P, C>>, <<K, C>>, <<C>>>>
DocAdaptive == <<"No", "Yes", "Yes", "No", "Yes">>

Doc(i) ==
    [name             |-> DocNames[i],
     url              |-> DocUrls[i],
     description      |-> "description",
     duration         |-> PyInt(DocDurations[i]),
     test_type        |-> DocTypes[i],
     adaptive_support |-> DocAdaptive[i],
     remote_support   |-> "Yes"]

Catalogs == {[i \in 1..n |-> Doc(i)] : n \in 1..MaxDocs}

Orders(n) == {f \in [1..n -> 1..n] : \A i, j \in 1..n : f[i] = f[j] => i = j}

\* ------------------------------------------------------ balancer inputs
ItemUrls == {"u1", "u2", "u3", None}
ItemTypes == {<<K>>, <<P>>, <<P, K>>, NoKey}
Items == [url : ItemUrls, test_type : ItemTypes]
ReqTypeLists == {<<>>, <<K>>, <<K, P>>, <<P, K>>, <<C, P>>, <<K, K>>, <<C, K, P>>}

BalanceOff ==
    /\ recs = <<>>
    /\ req_types = <<>>
    /\ balanced = [idx |-> <<>>, seen |-> {}, picks |-> <<>>]
    /\ bpc = "off"

NoSearch ==
    [called |-> FALSE, k |-> 0, count |-> 0, backendRaises |-> FALSE,
     raised |-> FALSE, value |-> <<>>, asked |-> <<>>, src |-> <<>>]

StoreOff ==
    /\ collection = <<>>
    /\ stale = FALSE
    /\ origin = <<>>
    /\ s_out = NoSearch
    /\ spc = "off"

NoTrace ==
    [count |-> <<>>, failed |-> {}, escaped |-> "none", search_k |-> <<>>,
     rerank_called |-> FALSE, rerank_raised |-> FALSE]

NoResult == [raised |-> FALSE, value |-> <<>>]

NoResponse == [status |-> 0, detail |-> "", body |-> <<>>]

NoAnalysis == [test_types |-> <<>>, experience_level |-> ""]

CallReset ==
    /\ caller = "none"
    /\ n_results = 0
    /\ assessments = <<>>
    /\ query_analysis = NoAnalysis
    /\ candidates = <<>>
    /\ recommendations = <<>>
    /\ result = NoResult
    /\ response = NoResponse
    /\ trace = NoTrace

PipelineOff == pc = "off" /\ CallReset

RecallOff ==
    recall_run = [pc |-> "off", predicted |-> <<>>, relevant |-> <<>>, k |-> 0,
                  value |-> [num |-> 0, den |-> 1]]

RerankOff ==
    rerank_run = [pc |-> "off", cands |-> <<>>, text |-> <<>>, n |-> 0, value |-> <<>>]

ExtractOff ==
    extract_run = [pc |-> "off", text |-> <<>>, skills |-> <<>>, focus |-> <<>>]

RunIds == {"startup", "scrape", "request"}

NoRun == [pc |-> "none", cat |-> <<>>]

\* No run has ended: the index col is what was there before and what is complete.
NoneEnded(col) == [failed |-> FALSE, before |-> col, after |-> col, new |-> col]

NoObs == [called |-> FALSE, seen |-> <<>>, prev |-> <<>>, new |-> <<>>,
          dims |-> <<>>, qdim |-> 0]

ReindexOff ==
    /\ runs = [r \in RunIds |-> NoRun]
    /\ req = "off"
    /\ stored_dims = <<>>
    /\ last = NoneEnded(<<>>)
    /\ obs = NoObs
    /\ service_dim = 0

ExtraOff == RecallOff /\ RerankOff /\ ExtractOff /\ ReindexOff

EmbedOff ==
    /\ text_hash = <<>>
    /\ vector = <<>>
    /\ epc = "off"

InitBalance ==
    /\ recs \in SeqsUpTo(Items, MaxRecs)
    /\ req_types \in ReqTypeLists
    /\ balanced = [idx |-> <<>>, seen |-> {}, picks |-> <<>>]
    /\ bpc = "input"
    /\ EmbedOff
    /\ StoreOff
    /\ PipelineOff
    /\ ExtraOff

Balance ==
    /\ bpc = "input"
    /\ balanced' = BalanceRun(recs, req_types)
    /\ bpc' = "done"
    /\ UNCHANGED <<recs, req_types, evars, svars, rvars, xvars>>

NextBalance == Balance

SpecBalance == InitBalance /\ [][NextBalance]_vars

BalancedOut == ItemsAt(recs, balanced.idx)

Count(s, x) == Cardinality({i \in 1..Len(s) : s[i] = x})

\* Position of input item p in the output (0: absent).
OutPos(p) ==
    IF p \in Range(balanced.idx)
    THEN CHOOSE k \in 1..Len(balanced.idx) : balanced.idx[k] = p
    ELSE 0

\* The number of picks made for the categories requested before the j-th.
EarlierPicks(j) == Cardinality({i \in 1..(j - 1) : balanced.picks[i] # 0})

\* C1: the balanced output is a permutation of the ranked input: every item occurs
\* in the output as many times as in the input, also when items share a url or have none.
C1_BalanceIsPermutation ==
    bpc = "done" =>
        /\ Len(BalancedOut) = Len(recs)
        /\ \A x \in Range(recs) \cup Range(BalancedOut) :
               Count(BalancedOut, x) = Count(recs, x)

\* C2 (as claimed): the item picked for a requested category stands in the output no
\* later than at the position it held in the input ranking.
C2_PickNeverPushedBack ==
    bpc = "done" =>
        \A j \in 1..Len(balanced.picks) :
            balanced.picks[j] # 0 => OutPos(balanced.picks[j]) <= balanced.picks[j]

\* C2 (amended): the item picked for a requested category stands right after the picks
\* of the categories requested before it, so it is pushed back by earlier picks only:
\* its output position is no later than its input position or that count plus one.
C2_PickBehindEarlierPicksOnly ==
    bpc = "done" =>
        \A j \in 1..Len(balanced.picks) :
            balanced.picks[j] # 0 =>
                /\ OutPos(balanced.picks[j]) # 0
                /\ OutPos(balanced.picks[j]) <= Max(balanced.picks[j], EarlierPicks(j) + 1)

\* Every item has a url and no two items share one.
DistinctUrls ==
    /\ \A i \in 1..Len(recs) : GetUrl(recs[i]) # None
    /\ \A i, j \in 1..Len(recs) : i # j => GetUrl(recs[i]) # GetUrl(recs[j])

\* The first item outside sel that carries category t (0: none).
RefPick(t, sel) ==
    LET c == {i \in 1..Len(recs) : i \notin sel /\ t \in Range(GetTestType(recs[i]))}
    IN  IF c = {} THEN 0 ELSE CHOOSE i \in c : \A k \in c : i <= k

\* The head of the reference: one item per requested category, selected by position.
RECURSIVE RefHead(_, _)
RefHead(j, head) ==
    IF j > Len(req_types) THEN head
    ELSE LET p == RefPick(req_types[j], Range(head))
         IN  RefHead(j + 1, IF p = 0 THEN head ELSE Append(head, p))

\* The reference output, as positions of the input.
RefBalanced ==
    LET all == [i \in 1..Len(recs) |-> i]
    IN  IF Len(req_types) <= 1 THEN all
        ELSE LET head == RefHead(1, <<>>)
             IN  head \o SelectSeq(all, LAMBDA i : i \notin Range(head))

\* C14: for ranked items with pairwise distinct urls the balancer equals the reference:
\* the input unchanged with at most one requested category, otherwise one first
\* not-yet-selected item per requested category in the given order, then the rest in
\* rank order.
C14_BalanceEqualsReference ==
    (bpc = "done" /\ DistinctUrls) => balanced.idx = RefBalanced

\* A run over three items with distinct urls in which a pick is pulled forward and one
\* requested category finds no item.
C14_Witness ==
    /\ bpc = "done"
    /\ DistinctUrls
    /\ Len(recs) = 3
    /\ Len(req_types) >= 2
    /\ balanced.idx # <<1, 2, 3>>
    /\ \E j \in 1..Len(balanced.picks) : balanced.picks[j] = 0

\* The number of diversity picks of the run.
PickCount == Cardinality({j \in 1..Len(balanced.picks) : balanced.picks[j] # 0})

\* The items that lack the url key or the test_type key.
Keyless == {i \in 1..Len(recs) : GetUrl(recs[i]) = None \/ GetTestType(recs[i]) = NoKey}

\* C16: with two or more requested categories an item lacking url or test_type is never
\* a diversity pick and stands in the tail of the output, behind all picks, in its
\* original relative order.
C16_KeylessItemsFallToTail ==
    (bpc = "done" /\ Len(req_types) >= 2) =>
        /\ \A i \in Keyless :
               /\ i \notin Range(balanced.picks)
               /\ OutPos(i) > PickCount
        /\ \A i, k \in Keyless : i < k => OutPos(i) < OutPos(k)

\* A run in which one pick is pulled forward and another is placed behind it.
C2_Witness ==
    /\ bpc = "done"
    /\ Len(balanced.picks) >= 2
    /\ balanced.picks[1] # 0 /\ OutPos(balanced.picks[1]) < balanced.picks[1]
    /\ balanced.picks[2] # 0 /\ OutPos(balanced.picks[2]) > balanced.picks[2]

\* ------------------------------------------------ fallback embedding runs
\* Digests: 32 bytes each, an arithmetic progression of bytes modulo 256.
DigestStarts == {17 * k : k \in 0..15}
DigestSteps == {0, 1, 7, 100}
Digests == {[i \in 1..HashLen |-> (a + b * (i - 1)) % 256] : a \in DigestStarts, b \in DigestSteps}

InitEmbed ==
    /\ text_hash \in Digests
    /\ vector = <<>>
    /\ epc = "input"
    /\ BalanceOff
    /\ StoreOff
    /\ PipelineOff
    /\ ExtraOff

Embed ==
    /\ epc = "input"
    /\ vector' = simple_embedding(text_hash)
    /\ epc' = "done"
    /\ UNCHANGED <<text_hash, bvars, svars, rvars, xvars>>

NextEmbed == Embed

SpecEmbed == InitEmbed /\ [][NextEmbed]_vars

\* C8: the fallback vector has exactly 384 components, the i-th being
\* (d[i mod 32] mod 100)/100 for the digest d, hence in [0,1).
C8_EmbeddingIsCyclicRepeat ==
    epc = "done" =>
        /\ Len(vector) = 384
        /\ \A i \in 0..383 :
               /\ vector[i + 1] = text_hash[(i % 32) + 1] % 100
               /\ 0 <= vector[i + 1] /\ vector[i + 1] < 100

\* A digest with a byte of 100 or more, whose vector wraps past the 32nd component.
C8_Witness ==
    /\ epc = "done"
    /\ \E i \in 1..HashLen : text_hash[i] >= 100 /\ vector[i + 352] = text_hash[i] - 100

\* ------------------------------------------------------- vector store runs
InitStore ==
    /\ collection = <<>>
    /\ stale = FALSE
    /\ origin = <<>>
    /\ s_out = NoSearch
    /\ spc = "ready"
    /\ BalanceOff
    /\ EmbedOff
    /\ PipelineOff
    /\ ExtraOff

StoreAdd ==
    /\ spc = "ready"
    /\ \E cat \in Catalogs, backendRaises \in BOOLEAN :
          LET r == add_assessments(collection, stale, cat,
                                   [i \in 1..Len(cat) |-> "vector"], backendRaises)
          IN  /\ collection' = r.collection
              /\ origin' = [i \in 1..Len(r.collection) |->
                               IF i <= Len(origin) THEN origin[i]
                               ELSE cat[r.collection[i].id + 1]]
    /\ UNCHANGED <<stale, s_out, spc, bvars, evars, rvars, xvars>>

StoreClear ==
    /\ spc = "ready"
    /\ \E outcome \in ClearOutcomes :
          LET r == clear(collection, stale, outcome)
          IN  /\ collection' = r.collection
              /\ stale' = r.stale
              /\ origin' = IF r.collection = <<>> THEN <<>> ELSE origin
    /\ UNCHANGED <<s_out, spc, bvars, evars, rvars, xvars>>

StoreSearch ==
    /\ spc = "ready"
    /\ \E k \in -1..MaxK, order \in Orders(Len(collection)), backendRaises \in BOOLEAN :
          LET r == search(collection, stale, k, order, backendRaises)
          IN  s_out' = [called |-> TRUE, k |-> k, count |-> Len(collection),
                        backendRaises |-> backendRaises,
                        raised |-> r.raised, value |-> r.value, asked |-> r.asked,
                        src |-> [i \in 1..Len(r.value) |-> origin[order[i]]]]
    /\ UNCHANGED <<collection, stale, origin, spc, bvars, evars, rvars, xvars>>

NextStore == StoreAdd \/ StoreClear \/ StoreSearch

SpecStore == InitStore /\ [][NextStore]_vars

\* C9: search asks the backend for min(k, count()) neighbours, returns at most
\* count() results for every k, and never raises: a backend error yields the empty list.
C9_SearchClampsAndNeverRaises ==
    s_out.called =>
        /\ ~s_out.raised
        /\ s_out.asked # <<>> => s_out.asked[1] = Min(s_out.k, s_out.count)
        /\ Len(s_out.value) <= s_out.count
        /\ (s_out.backendRaises \/ s_out.asked = <<>>) => s_out.value = <<>>

\* A search asking for more neighbours than stored that returns them all, the backend
\* having been asked for exactly count() neighbours.
C9_Witness ==
    /\ s_out.called
    /\ s_out.k > s_out.count
    /\ s_out.count >= 2
    /\ s_out.asked = <<s_out.count>>
    /\ Len(s_out.value) = s_out.count

SameTyped(x, y) == x.type = y.type /\ x.v = y.v

\* C10: every stored field comes back from search equal in value and type to the value
\* handed to add_assessments; test_type the same ordered list, duration the same integer.
C10_PayloadRoundTrip ==
    s_out.called =>
        \A i \in 1..Len(s_out.value) :
            /\ s_out.value[i].name = s_out.src[i].name
            /\ s_out.value[i].url = s_out.src[i].url
            /\ s_out.value[i].description = s_out.src[i].description
            /\ s_out.value[i].test_type = s_out.src[i].test_type
            /\ s_out.value[i].adaptive_support = s_out.src[i].adaptive_support
            /\ s_out.value[i].remote_support = s_out.src[i].remote_support
            /\ SameTyped(s_out.value[i].duration, s_out.src[i].duration)

\* ------------------------------------------------------------ recall runs
EvalUrls == {"u1", "u2", "u3"}

InitRecall ==
    /\ \E pred \in SeqsUpTo(EvalUrls, MaxRecs), rel \in SeqsUpTo(EvalUrls, MaxRecs),
          k \in 0..MaxK :
          recall_run = [pc |-> "input", predicted |-> pred, relevant |-> rel, k |-> k,
                        value |-> [num |-> 0, den |-> 1]]
    /\ BalanceOff
    /\ EmbedOff
    /\ StoreOff
    /\ PipelineOff
    /\ RerankOff
    /\ ExtractOff
    /\ ReindexOff

Recall ==
    /\ recall_run.pc = "input"
    /\ recall_run' = [recall_run EXCEPT
                         !.pc = "done",
                         !.value = calculate_recall_at_k(recall_run.predicted,
                                                         recall_run.relevant,
                                                         recall_run.k)]
    /\ UNCHANGED <<bvars, evars, svars, rvars, rerank_run, extract_run, ivars>>

NextRecall == Recall

SpecRecall == InitRecall /\ [][NextRecall]_vars

\* The relevant items found among the first k predicted ones.
FoundRelevant ==
    {r \in Range(recall_run.relevant) :
        \E i \in 1..Len(recall_run.predicted) :
            i <= recall_run.k /\ recall_run.predicted[i] = r}

\* C11: for a non-empty relevant list the result is the fraction of the relevant items
\* that appear among the first k predicted ones, |{r in relevant : r in predicted[:k]}|
\* over |relevant|, a value between 0 and 1; for an empty relevant list it is 0.
C11_RecallIsFractionOfRelevant ==
    recall_run.pc = "done" =>
        LET v == recall_run.value
        IN  IF recall_run.relevant = <<>> THEN v.num = 0
            ELSE /\ v.num * Len(recall_run.relevant) = Cardinality(FoundRelevant) * v.den
                 /\ 0 <= v.num /\ v.num <= v.den

\* ------------------------------------------------------------ rerank runs
RerankTexts == SeqsUpTo({"0", "1", "2", "3", "4", ","}, MaxResp)

InitRerank ==
    /\ \E m \in 0..MaxDocs, text \in RerankTexts, n \in 0..MaxK :
          rerank_run = [pc |-> "input", cands |-> [i \in 1..m |-> Doc(i)], text |-> text,
                        n |-> n, value |-> <<>>]
    /\ BalanceOff
    /\ EmbedOff
    /\ StoreOff
    /\ PipelineOff
    /\ RecallOff
    /\ ExtractOff
    /\ ReindexOff

\* The model call succeeds and answers rerank_run.text.
RerankRun ==
    /\ rerank_run.pc = "input"
    /\ rerank_run' = [rerank_run EXCEPT
                         !.pc = "done",
                         !.value = rerank_and_filter(rerank_run.cands, rerank_run.n,
                                       [raises |-> FALSE, text |-> rerank_run.text]).value]
    /\ UNCHANGED <<bvars, evars, svars, rvars, recall_run, extract_run, ivars>>

NextRerank == RerankRun

SpecRerank == InitRerank /\ [][NextRerank]_vars

\* The digit runs of the response as intervals <<first, last>> of positions.
RunSpans ==
    LET t == rerank_run.text
    IN  {sp \in (1..Len(t)) \X (1..Len(t)) :
            /\ sp[1] <= sp[2]
            /\ \A i \in sp[1]..sp[2] : IsDigit(t[i])
            /\ sp[1] = 1 \/ ~IsDigit(t[sp[1] - 1])
            /\ sp[2] = Len(t) \/ ~IsDigit(t[sp[2] + 1])}

\* The 1-based indices listed by the response, left to right.
RECURSIVE ListedFrom(_)
ListedFrom(spans) ==
    IF spans = {} THEN <<>>
    ELSE LET sp == CHOOSE x \in spans : \A y \in spans : x[1] <= y[1]
         IN  <<DecimalValue(SubSeq(rerank_run.text, sp[1], sp[2]))>>
             \o ListedFrom(spans \ {sp})

Listed == ListedFrom(RunSpans)

\* The listed indices that name a candidate, in the order listed.
RefRanked ==
    SelectSeq(Listed, LAMBDA v : 1 <= v /\ v <= Len(rerank_run.cands))

\* The positions of the candidates no run mentions, in original order.
Unmentioned ==
    SelectSeq([i \in 1..Len(rerank_run.cands) |-> i], LAMBDA i : i \notin Range(Listed))

\* C15: on a successful model call the result is the candidates named by the digit runs
\* read as 1-based indices, in the order listed, runs naming no candidate (the run '0'
\* included) discarded, followed by the never-mentioned candidates in original order,
\* each appended only while the output holds fewer than n_results items.
C15_RerankEqualsReference ==
    rerank_run.pc = "done" =>
        rerank_run.value =
            [j \in 1..Len(RefRanked) |-> rerank_run.cands[RefRanked[j]]]
            \o [j \in 1..Min(Len(Unmentioned), Max(0, rerank_run.n - Len(RefRanked))) |->
                    rerank_run.cands[Unmentioned[j]]]

\* A run whose response names a candidate and also holds a run naming none, and whose
\* fill stops at n_results before all unmentioned candidates are added.
C15_Witness ==
    /\ rerank_run.pc = "done"
    /\ RefRanked # <<>>
    /\ Len(RefRanked) < Len(Listed)
    /\ Len(rerank_run.value) > Len(RefRanked)
    /\ Len(rerank_run.value) < Len(RefRanked) + Len(Unmentioned)

\* ----------------------------------------------------------- extract runs
TextTokens == {"Skills", "Focus", "a", " ", ":", ",", Newline}

InitExtract ==
    /\ \E text \in SeqsUpTo(TextTokens, MaxText) :
          extract_run = [pc |-> "input", text |-> text, skills |-> <<>>, focus |-> <<>>]
    /\ BalanceOff
    /\ EmbedOff
    /\ StoreOff
    /\ PipelineOff
    /\ RecallOff
    /\ RerankOff
    /\ ReindexOff

Extract ==
    /\ extract_run.pc = "input"
    /\ extract_run' = [extract_run EXCEPT
                          !.pc = "done",
                          !.skills = extract_skills(extract_run.text),
                          !.focus = extract_focus_areas(extract_run.text)]
    /\ UNCHANGED <<bvars, evars, svars, rvars, recall_run, rerank_run, ivars>>

NextExtract == Extract

SpecExtract == InitExtract /\ [][NextExtract]_vars

\* The whole of a line behind its first colon.
AfterFirstColon(line) ==
    LET c == CHOOSE i \in 1..Len(line) : line[i] = ":" /\ \A k \in 1..(i - 1) : line[k] # ":"
    IN  SubSeq(line, c + 1, Len(line))

\* The non-empty trimmed comma-separated tokens of the lines holding word and a colon.
RECURSIVE TokensOfLines(_, _, _)
TokensOfLines(lines, word, i) ==
    IF i > Len(lines) THEN <<>>
    ELSE (IF HasKeyword(lines[i], word) /\ HasKeyword(lines[i], ":")
          THEN SelectSeq(StrippedPieces(AfterFirstColon(lines[i])), LAMBDA t : t # <<>>)
          ELSE <<>>)
         \o TokensOfLines(lines, word, i + 1)

\* C17: for every line holding the keyword and a colon the extractor splits the whole
\* remainder behind the first colon on commas, trims each piece and collects only the
\* non-empty tokens in order of appearance; the result never holds an empty string.
C17_ExtractCollectsNonEmptyTokens ==
    extract_run.pc = "done" =>
        LET lines == SplitOn(Lower(extract_run.text), Newline, 1, <<>>)
        IN  /\ extract_run.skills = TokensOfLines(lines, "skills", 1)
            /\ extract_run.focus = TokensOfLines(lines, "focus", 1)
            /\ <<>> \notin Range(extract_run.skills) \cup Range(extract_run.focus)

\* ------------------------------------------------- recommendation calls
Responses == SeqsUpTo({"0", "1", "2", ","}, MaxResp)

\* The index found at start-up: empty, or a catalogue indexed by an earlier run.
InitCollections ==
    {<<>>} \cup {add_assessments(<<>>, FALSE, cat, cat, FALSE).collection : cat \in Catalogs}

Init ==
    /\ collection \in InitCollections
    /\ stale = FALSE
    /\ origin = <<>>
    /\ s_out = NoSearch
    /\ spc = "off"
    /\ pc = "idle"
    /\ CallReset
    /\ BalanceOff
    /\ EmbedOff
    /\ ExtraOff

others == <<bvars, evars, origin, s_out, spc, xvars>>

\* recommend_assessments up to its call of recommend (server.py 83-92).
RequestStart ==
    /\ pc = "idle"
    /\ caller' = "endpoint"
    /\ n_results' = EndpointN
    /\ LET c == count(collection, stale)
       IN  IF c.raised
           THEN /\ response' = EndpointExcept("error")
                /\ trace' = [trace EXCEPT !.failed = @ \cup {"count"}]
                /\ pc' = "done"
           ELSE /\ response' = response
                /\ trace' = [trace EXCEPT !.count = <<c.value>>]
                /\ pc' = IF c.value = 0 THEN "scrape" ELSE "analyze"
    /\ UNCHANGED <<collection, stale, assessments, query_analysis, candidates,
                   recommendations, result, others>>

\* A caller of RAGPipeline.recommend(query, n).
DirectCall ==
    /\ pc = "idle"
    /\ caller' = "direct"
    /\ \E n \in 0..MaxN : n_results' = n
    /\ pc' = "analyze"
    /\ UNCHANGED <<collection, stale, assessments, query_analysis, candidates,
                   recommendations, result, response, trace, others>>

\* scrape_and_index up to its first suspension: scrape_catalog, then the store write.
Scrape ==
    /\ pc = "scrape"
    /\ \E cat \in Catalogs :
          /\ assessments' = cat
          /\ pc' = IF cat = <<>> THEN "analyze" ELSE "index"
    /\ UNCHANGED <<collection, stale, caller, n_results, query_analysis, candidates,
                   recommendations, result, response, trace, others>>

\* scrape_and_index from the embedding batch on: clear(), then add_assessments();
\* an exception of add_assessments is logged by scrape_and_index.
Index ==
    /\ pc = "index"
    /\ \E outcome \in ClearOutcomes, backendRaises \in BOOLEAN :
          LET embeddings_list == [i \in 1..Len(assessments) |-> "vector"]
              c == clear(collection, stale, outcome)
              a == add_assessments(c.collection, c.stale, assessments,
                                   embeddings_list, backendRaises)
          IN  /\ collection' = a.collection
              /\ stale' = c.stale
              /\ trace' = [trace EXCEPT !.failed =
                              @ \cup (IF outcome # "ok" THEN {"clear"} ELSE {})
                                \cup (IF a.raised THEN {"add"} ELSE {})]
    /\ pc' = "analyze"
    /\ UNCHANGED <<caller, n_results, assessments, query_analysis, candidates,
                   recommendations, result, response, others>>

\* An exception reaching recommend's except clause while `step` runs.
Escape(step) ==
    /\ result' = RecommendExcept(candidates)
    /\ trace' = [trace EXCEPT !.escaped = step]
    /\ pc' = "return"
    /\ UNCHANGED <<collection, stale, caller, n_results, assessments, query_analysis,
                   candidates, recommendations, response, others>>

Analyze ==
    /\ pc = "analyze"
    /\ \/ \E raises \in BOOLEAN, found \in SUBSET KeywordGroups :
             /\ raises => found = {}
             /\ query_analysis' = analyze_query([raises |-> raises, found |-> found])
             /\ trace' = [trace EXCEPT !.failed =
                             @ \cup (IF raises THEN {"analyze"} ELSE {})]
             /\ pc' = "embed"
             /\ UNCHANGED <<collection, stale, caller, n_results, assessments,
                            candidates, recommendations, result, response, others>>
       \/ Escape("analyze")

\* get_embedding: the service's vector, or the hash vector when the service fails.
EmbedQuery ==
    /\ pc = "embed"
    /\ \/ \E raises \in BOOLEAN :
             /\ trace' = [trace EXCEPT !.failed =
                             @ \cup (IF raises THEN {"embed"} ELSE {})]
             /\ pc' = "search"
             /\ UNCHANGED <<collection, stale, caller, n_results, assessments,
                            query_analysis, candidates, recommendations, result,
                            response, others>>
       \/ Escape("embed")

Search ==
    /\ pc = "search"
    /\ \/ \E order \in Orders(Len(collection)), backendRaises \in BOOLEAN :
             LET r == search(collection, stale, SearchOverfetch, order, backendRaises)
             IN  /\ candidates' = r.value
                 /\ trace' = [trace EXCEPT
                                 !.search_k = <<SearchOverfetch>>,
                                 !.failed = @ \cup (IF backendRaises \/ stale
                                                    THEN {"search"} ELSE {})]
                 /\ IF r.raised
                    THEN /\ result' = RecommendExcept(candidates)
                         /\ pc' = "return"
                    ELSE IF r.value = <<>>
                    THEN /\ result' = [raised |-> FALSE, value |-> <<>>]
                         /\ pc' = "return"
                    ELSE /\ result' = result
                         /\ pc' = "rerank"
             /\ UNCHANGED <<collection, stale, caller, n_results, assessments,
                            query_analysis, recommendations, response, others>>
       \/ Escape("search")

Rerank ==
    /\ pc = "rerank"
    /\ \/ \E raises \in BOOLEAN, text \in Responses :
             /\ raises => text = <<>>
             /\ LET r == rerank_and_filter(candidates, n_results,
                                           [raises |-> raises, text |-> text])
                IN  /\ recommendations' = r.value
                    /\ trace' = [trace EXCEPT
                                    !.rerank_called = TRUE,
                                    !.rerank_raised = raises,
                                    !.failed = @ \cup (IF raises THEN {"rerank"} ELSE {})]
                    /\ pc' = "balance"
             /\ UNCHANGED <<collection, stale, caller, n_results, assessments,
                            query_analysis, candidates, result, response, others>>
       \/ Escape("rerank")

BalanceAndReturn ==
    /\ pc = "balance"
    /\ \/ /\ result' = [raised |-> FALSE,
                         value  |-> RecommendReturn(
                                        balance_recommendations(recommendations,
                                                                query_analysis),
                                        n_results)]
          /\ pc' = "return"
          /\ UNCHANGED <<collection, stale, caller, n_results, assessments,
                         query_analysis, candidates, recommendations, response,
                         trace, others>>
       \/ Escape("balance")

\* recommend_assessments from recommend's return on (server.py 94-115); a direct
\* caller just holds the returned list.
Respond ==
    /\ pc = "return"
    /\ response' = IF caller = "endpoint" THEN EndpointResponse(result) ELSE response
    /\ pc' = "done"
    /\ UNCHANGED <<collection, stale, caller, n_results, assessments, query_analysis,
                   candidates, recommendations, result, trace, others>>

\* The next call starts from the index this one left.
Finish ==
    /\ pc = "done"
    /\ pc' = "idle"
    /\ caller' = "none"
    /\ n_results' = 0
    /\ assessments' = <<>>
    /\ query_analysis' = NoAnalysis
    /\ candidates' = <<>>
    /\ recommendations' = <<>>
    /\ result' = NoResult
    /\ response' = NoResponse
    /\ trace' = NoTrace
    /\ UNCHANGED <<collection, stale, others>>

Next ==
    \/ RequestStart \/ DirectCall \/ Scrape \/ Index \/ Analyze \/ EmbedQuery
    \/ Search \/ Rerank \/ BalanceAndReturn \/ Respond \/ Finish

Spec == Init /\ [][Next]_vars

\* ----------------------------------------------------------- re-index runs
ServiceDims == {EmbedDim, GeminiDim}

\* startup_event creates its task only when the index is empty.
InitReindex ==
    /\ collection \in InitCollections
    /\ stale = FALSE
    /\ origin = <<>>
    /\ s_out = NoSearch
    /\ spc = "off"
    /\ service_dim \in ServiceDims
    /\ \E d \in {service_dim, EmbedDim} : stored_dims = [i \in 1..Len(collection) |-> d]
    /\ runs = [r \in RunIds |->
                  IF r = "request" \/ (r = "startup" /\ collection # <<>>)
                  THEN NoRun ELSE [NoRun EXCEPT !.pc = "idle"]]
    /\ req = "idle"
    /\ last = NoneEnded(collection)
    /\ obs = NoObs
    /\ BalanceOff
    /\ EmbedOff
    /\ PipelineOff
    /\ RecallOff
    /\ RerankOff
    /\ ExtractOff

reindex_rest == <<bvars, evars, rvars, origin, s_out, spc, recall_run, rerank_run,
                  extract_run, service_dim>>

\* scrape_and_index up to its first suspension, the await of save_assessments_to_db:
\* the catalogue is scraped (scrape_catalog never returns an empty list).
BeginRun(r) ==
    /\ \/ r = "startup" /\ runs[r].pc = "idle"
       \/ r = "scrape" /\ runs[r].pc \in {"idle", "ended"}
    /\ \E cat \in Catalogs :
          runs' = [runs EXCEPT ![r] = [NoRun EXCEPT !.pc = "saving", !.cat = cat]]
    /\ obs' = NoObs
    /\ UNCHANGED <<collection, stale, stored_dims, last, req, reindex_rest>>

\* The rest of run r, from the resumption after the store write to its end.
IndexEffect(r) ==
    \E primary \in [1..Len(runs[r].cat) -> BOOLEAN], clearOutcome \in ClearOutcomes,
       addRaises \in BOOLEAN :
        LET o == scrape_and_index(collection, stale, stored_dims, runs[r].cat, primary,
                                  clearOutcome, addRaises, service_dim)
        IN  /\ collection' = o.collection
            /\ stale' = o.stale
            /\ stored_dims' = o.dims
            /\ last' = [failed |-> o.failed,
                        before |-> collection,
                        after  |-> o.collection,
                        new    |-> add_assessments(<<>>, FALSE, runs[r].cat, runs[r].cat,
                                                   FALSE).collection]
            /\ runs' = [runs EXCEPT ![r] = [NoRun EXCEPT !.pc = "ended"]]

IndexRun(r) ==
    /\ r \in {"startup", "scrape"}
    /\ runs[r].pc = "saving"
    /\ IndexEffect(r)
    /\ obs' = NoObs
    /\ UNCHANGED <<req, reindex_rest>>

\* POST /recommend on a non-empty index: count(), recommend and its search run with no
\* suspension in between.
RequestSearch ==
    /\ req = "idle"
    /\ ~count(collection, stale).raised
    /\ count(collection, stale).value # 0
    /\ \E queryPrimary \in BOOLEAN :
          obs' = SearchMeets(collection, stale, stored_dims, last, queryPrimary,
                             service_dim)
    /\ UNCHANGED <<collection, stale, stored_dims, last, runs, req, reindex_rest>>

\* POST /recommend on an empty index: the handler awaits scrape_and_index itself.
RequestBegin ==
    /\ req = "idle"
    /\ ~count(collection, stale).raised
    /\ count(collection, stale).value = 0
    /\ \E cat \in Catalogs :
          runs' = [runs EXCEPT !["request"] = [NoRun EXCEPT !.pc = "saving", !.cat = cat]]
    /\ req' = "reindexing"
    /\ obs' = NoObs
    /\ UNCHANGED <<collection, stale, stored_dims, last, reindex_rest>>

\* The awaited run ends and the handler goes on to recommend without suspension.
RequestEnd ==
    /\ req = "reindexing"
    /\ runs["request"].pc = "saving"
    /\ IndexEffect("request")
    /\ \E queryPrimary \in BOOLEAN :
          obs' = SearchMeets(collection', stale', stored_dims', last', queryPrimary,
                             service_dim)
    /\ req' = "idle"
    /\ UNCHANGED reindex_rest

NextReindex ==
    \/ BeginRun("startup")
    \/ BeginRun("scrape")
    \/ IndexRun("startup")
    \/ IndexRun("scrape")
    \/ RequestSearch
    \/ RequestBegin
    \/ RequestEnd

SpecReindex == InitReindex /\ [][NextReindex]_vars

\* C12: after a run of scrape_and_index that does not complete successfully the index
\* holds exactly the documents it held before the run: never emptied, never part-filled.
C12_FailedReindexKeepsIndex ==
    last.failed => last.after = last.before

\* C13: all vectors stored in the index have one length, and every query vector searched
\* against it has that length too, whichever embedding calls fell back.
C13_OneDimensionality ==
    /\ \A i, j \in 1..Len(stored_dims) : stored_dims[i] = stored_dims[j]
    /\ obs.called => \A i \in 1..Len(obs.dims) : obs.dims[i] = obs.qdim

\* C18: under any interleaving of requests and re-index runs, every search meets either
\* the complete document set held before the last re-index or the complete new one.
C18_SearchMeetsCompleteIndex ==
    obs.called => obs.seen \in {obs.prev, obs.new}

\* C3: recommend never raises to its caller: when an exception escapes the analysis,
\* the embedding, the search, the re-ranking or the balancing it returns the empty list,
\* and when the search finds no candidates it returns the empty list without re-ranking.
C3_RecommendNeverRaises ==
    pc \in {"return", "done"} =>
        /\ ~result.raised
        /\ trace.escaped # "none" => result.value = <<>>
        /\ (trace.search_k # <<>> /\ candidates = <<>>) =>
               (result.value = <<>> /\ ~trace.rerank_called)

\* An exception escaping the re-ranking step after candidates were found.
C3_Witness ==
    /\ pc = "return"
    /\ trace.escaped = "rerank"
    /\ candidates # <<>>
    /\ result = [raised |-> FALSE, value |-> <<>>]

\* C4: recommend returns at most n items, exactly the first n items of the balanced
\* re-ranked list, and the search is issued with k = 20 whatever n is.
C4_RecommendIsPrefixOfBalanced ==
    pc \in {"return", "done"} =>
        /\ Len(result.value) <= n_results
        /\ (trace.escaped = "none" /\ trace.search_k # <<>>) =>
              LET B == balance_recommendations(recommendations, query_analysis)
              IN  /\ trace.search_k = <<20>>
                  /\ Len(result.value) = Min(n_results, Len(B))
                  /\ \A i \in 1..Len(result.value) : result.value[i] = B[i]

\* A call whose balanced list is longer than n and starts with a pulled-forward pick.
C4_Witness ==
    /\ pc = "return"
    /\ trace.escaped = "none"
    /\ n_results = 2
    /\ Len(recommendations) > 2
    /\ Len(result.value) = 2
    /\ result.value[1] # recommendations[1]

\* C5: the endpoint answers with an error only when the index is empty: with at least
\* one document indexed, no failure inside the pipeline makes the endpoint raise.
C5_EndpointErrorOnlyOnEmptyIndex ==
    (pc = "done" /\ caller = "endpoint" /\ trace.count # <<>> /\ trace.count[1] > 0) =>
        response.status = 200

\* C6: when the pipeline yields no recommendations the caller of the endpoint receives
\* the not-found status 404, not the generic failure status 500.
C6_NoRecommendationsIsNotFound ==
    (pc = "done" /\ caller = "endpoint" /\ trace.search_k # <<>>
        /\ ~result.raised /\ result.value = <<>>) =>
        response.status = 404

\* C7: when the generative call or the parse raises, _rerank_and_filter returns the
\* candidates it was given, same items, same order, same length (not cut to n_results).
C7_RerankFailureReturnsCandidates ==
    (trace.rerank_called /\ trace.rerank_raised) =>
        /\ Len(recommendations) = Len(candidates)
        /\ recommendations = candidates

\* A failed re-ranking of more candidates than the caller asked for.
C7_Witness ==
    /\ pc = "balance"
    /\ trace.rerank_raised
    /\ Len(candidates) > n_results
    /\ recommendations = candidates

\* C19: with pairwise distinct urls in the index (the catalogue's are), the list
\* recommend returns holds no assessment twice, whatever the ranking response and the
\* query analysis.
C19_RecommendReturnsNoDuplicate ==
    (pc \in {"return", "done"} /\ ~result.raised) =>
        \A i, j \in 1..Len(result.value) :
            i # j => result.value[i].url # result.value[j].url

====
